---------------------------- MODULE Spec2Model ----------------------------
(***************************************************************************)
(* Magic-square coupling engines of Project-Genesis:                       *)
(*   QuantumCoupling  (src/quantum_coupling.py, on src/core_math.py)       *)
(*   MagicCoupling    (src/MATHEMATICS/magic_coupling.py, on               *)
(*                     src/MATHEMATICS/magic_square_core.py)               *)
(*                                                                         *)
(* Numbers are fixed point: a matrix entry, a sum, a tolerance or an       *)
(* imbalance x is held as the integer 100*x (Fix(1) = 1.00).  Scores are   *)
(* held in ten-thousandths (0.3 is 3000), their terms in thousandths.      *)
(* A matrix is a sequence of rows; its order is the number of rows.        *)
(* Python objects live in `heap`, so that aliasing is observable.          *)
(***************************************************************************)
EXTENDS Integers, Sequences, FiniteSets, TLC

\* ------------------------------------------------------------ arithmetic

Fix(n) == n * 100

Abs(x) == IF x < 0 THEN -x ELSE x

Min(x, y) == IF x < y THEN x ELSE y

Max(x, y) == IF x > y THEN x ELSE y

\* a / b rounded to the nearest integer, b > 0
DivRound(a, b) == (2 * a + b) \div (2 * b)

RECURSIVE GCD(_, _)
GCD(x, y) == IF y = 0 THEN x ELSE GCD(y, x % y)

RECURSIVE ISqrtIter(_, _, _)
ISqrtIter(n, lo, hi) ==
    IF lo >= hi THEN lo
    ELSE LET mid == (lo + hi + 1) \div 2
         IN IF mid * mid <= n THEN ISqrtIter(n, mid, hi)
                              ELSE ISqrtIter(n, lo, mid - 1)

\* floor of the square root, 0 <= n < 2^31
ISqrt(n) == ISqrtIter(n, 0, Min(n, 46340))

RECURSIVE SeqSum(_)
SeqSum(s) == IF s = << >> THEN 0 ELSE Head(s) + SeqSum(Tail(s))

\* ---------------------------------------------------------------- matrices

Order(m) == Len(m)

Zeros(n) == [i \in 1..n |-> [j \in 1..n |-> 0]]

Full(n, v) == [i \in 1..n |-> [j \in 1..n |-> v]]

\* the matrix that is v at (r, c) and 0 elsewhere
Bump(n, r, c, v) ==
    [i \in 1..n |-> [j \in 1..n |-> IF i = r /\ j = c THEN v ELSE 0]]

MatAdd(x, y) == [i \in 1..Len(x) |-> [j \in 1..Len(x[i]) |-> x[i][j] + y[i][j]]]

MatSub(x, y) == [i \in 1..Len(x) |-> [j \in 1..Len(x[i]) |-> x[i][j] - y[i][j]]]

\* np.sum(matrix[i, :])
RowSum(m, i) == SeqSum(m[i])

\* np.sum(matrix[:, j])
ColSum(m, j) == SeqSum([k \in 1..Len(m) |-> m[k][j]])

\* np.sum(np.diag(matrix))
DiagSum(m) == SeqSum([k \in 1..Len(m) |-> m[k][k]])

\* np.sum(np.diag(np.fliplr(matrix)))
AntiDiagSum(m) == SeqSum([k \in 1..Len(m) |-> m[k][Len(m) + 1 - k]])

\* np.sum(matrix)
TotalSum(m) == SeqSum([k \in 1..Len(m) |-> RowSum(m, k)])

\* matrix.flatten() of the leading k x k block, row by row
FlattenSub(m, k) == [p \in 1..(k * k) |-> m[((p - 1) \div k) + 1][((p - 1) % k) + 1]]

\* ------------------------------------------------ core_math.py: generators

generate_magic_square_3x3 ==
    << <<Fix(8), Fix(1), Fix(6)>>,
       <<Fix(3), Fix(5), Fix(7)>>,
       <<Fix(4), Fix(9), Fix(2)>> >>

\* the first two entries of the first row exchanged
generate_magic_square_5x5_Swapped ==
    << <<Fix(24), Fix(17), Fix(1),  Fix(8),  Fix(15)>>,
       <<Fix(23), Fix(5),  Fix(7),  Fix(14), Fix(16)>>,
       <<Fix(4),  Fix(6),  Fix(13), Fix(20), Fix(22)>>,
       <<Fix(10), Fix(12), Fix(19), Fix(21), Fix(3)>>,
       <<Fix(11), Fix(18), Fix(25), Fix(2),  Fix(9)>> >>

generate_magic_square_5x5 ==
    << <<Fix(17), Fix(24), Fix(1),  Fix(8),  Fix(15)>>,
       <<Fix(23), Fix(5),  Fix(7),  Fix(14), Fix(16)>>,
       <<Fix(4),  Fix(6),  Fix(13), Fix(20), Fix(22)>>,
       <<Fix(10), Fix(12), Fix(19), Fix(21), Fix(3)>>,
       <<Fix(11), Fix(18), Fix(25), Fix(2),  Fix(9)>> >>

\* ------------------------------------------------ core_math.py: validation

\* the loop with >= for >
RowsColsWithin_Strict(m, mc, tol, from) ==
    \A i \in from..Order(m) :
        Abs(RowSum(m, i) - mc) < tol /\ Abs(ColSum(m, i) - mc) < tol

\* the loop of is_magic_square over i = from..n, with its early returns
RECURSIVE RowsColsWithin(_, _, _, _)
RowsColsWithin(m, mc, tol, from) ==
    IF from > Order(m) THEN TRUE
    ELSE IF Abs(RowSum(m, from) - mc) > tol THEN FALSE
    ELSE IF Abs(ColSum(m, from) - mc) > tol THEN FALSE
    ELSE RowsColsWithin(m, mc, tol, from + 1)

is_magic_square(m, tol) ==
    IF Order(m) = 0 THEN FALSE
    ELSE LET magic_constant == RowSum(m, 1)
         IN IF ~RowsColsWithin(m, magic_constant, tol, 1) THEN FALSE
            ELSE IF Abs(DiagSum(m) - magic_constant) > tol THEN FALSE
            ELSE IF Abs(AntiDiagSum(m) - magic_constant) > tol THEN FALSE
            ELSE TRUE

\* calculate_imbalance of core_math: deviation from n(n^2+1)/2
calculate_imbalance(m) ==
    LET n == Order(m)
        magic_constant == (Fix(n) * (n * n + 1)) \div 2
    IN IF n = 0 THEN 0
       ELSE SeqSum([i \in 1..n |-> Abs(RowSum(m, i) - magic_constant)
                                    + Abs(ColSum(m, i) - magic_constant)])
            + Abs(DiagSum(m) - magic_constant)
            + Abs(AntiDiagSum(m) - magic_constant)

\* ---------------------------- MATHEMATICS/magic_square_core.py: validation

\* is_magic_square(matrix) with magic_constant=None: exact comparison; the
\* call returns `value`, or ends with the exception `raised` (matrix[0, :] of
\* a matrix without rows)
core_is_magic_square(m) ==
    IF Order(m) = 0 THEN [raised |-> "IndexError", value |-> FALSE]
    ELSE LET magic_constant == RowSum(m, 1)
         IN IF \E i \in 1..Order(m) :
                    RowSum(m, i) # magic_constant \/ ColSum(m, i) # magic_constant
            THEN [raised |-> "", value |-> FALSE]
            ELSE IF DiagSum(m) # magic_constant \/ AntiDiagSum(m) # magic_constant
            THEN [raised |-> "", value |-> FALSE]
            ELSE [raised |-> "", value |-> TRUE]

\* calculate_imbalance of magic_square_core: deviation from np.sum(matrix)/n;
\* for n = 0 the division is 0.0/0 on numpy floats (nan, no exception) and
\* every later sum adds abs(0 - nan)
core_calculate_imbalance(m) ==
    LET n == Order(m)
    IN IF n = 0 THEN [nan |-> TRUE, val |-> 0]
       ELSE LET magic_constant == DivRound(TotalSum(m), n)
            IN [nan |-> FALSE,
                val |-> SeqSum([i \in 1..n |-> Abs(RowSum(m, i) - magic_constant)
                                               + Abs(ColSum(m, i) - magic_constant)])
                        + Abs(DiagSum(m) - magic_constant)
                        + Abs(AntiDiagSum(m) - magic_constant)]

\* --------------------------------------------------------------- optional

\* a Python value that is an array or None
None == [some |-> FALSE, val |-> << >>]

Some(m) == [some |-> TRUE, val |-> m]

\* -------------------------------------- core_math.py: approximate squares

\* candidate[i, :] *= magic_sum / row_sum, for every row i
RescaleRows(m, magic_sum) ==
    [i \in 1..Len(m) |->
        [j \in 1..Len(m) |-> DivRound(m[i][j] * magic_sum, RowSum(m, i))]]

\* candidate[:, j] *= magic_sum / col_sum, for every column j
RescaleCols(m, magic_sum) ==
    [i \in 1..Len(m) |->
        [j \in 1..Len(m) |-> DivRound(m[i][j] * magic_sum, ColSum(m, j))]]

\* create_approximate_magic_square(order); `variation` is the matrix drawn
\* by np.random.normal(0, avg_value * 0.1, (order, order)).  The draws keep
\* every row and column sum positive.
create_approximate_magic_square(order, variation) ==
    LET magic_sum == (Fix(order) * (order * order + 1)) \div 2
        avg_value == magic_sum \div order
        base      == Full(order, avg_value)
        candidate == MatAdd(base, variation)
    IN RescaleCols(RescaleRows(candidate, magic_sum), magic_sum)

\* -------------------------------------------------- numpy: rank and the SVD

\* a row divided by the gcd of its entries (the row space is unchanged)
RECURSIVE SeqGCD(_)
SeqGCD(s) == IF s = << >> THEN 0 ELSE GCD(Abs(Head(s)), SeqGCD(Tail(s)))

NormalizeRow(r) ==
    LET g == SeqGCD(r) IN IF g = 0 THEN r ELSE [j \in 1..Len(r) |-> r[j] \div g]

RECURSIVE FirstNonZero(_, _, _)
FirstNonZero(rows, col, i) ==
    IF i > Len(rows) THEN 0
    ELSE IF rows[i][col] # 0 THEN i
    ELSE FirstNonZero(rows, col, i + 1)

\* Gaussian elimination, column by column, on integer rows
RECURSIVE RankRows(_, _, _)
RankRows(rows, col, n) ==
    IF rows = << >> \/ col > n THEN 0
    ELSE LET p == FirstNonZero(rows, col, 1)
         IN IF p = 0 THEN RankRows(rows, col + 1, n)
            ELSE LET prow == rows[p]
                     rest == [k \in 1..(Len(rows) - 1) |->
                                LET r == rows[IF k < p THEN k ELSE k + 1]
                                IN NormalizeRow(
                                     [j \in 1..n |-> r[j] * prow[col] - prow[j] * r[col]])]
                 IN 1 + RankRows(rest, col + 1, n)

Rank(m) == RankRows([i \in 1..Len(m) |-> NormalizeRow(m[i])], 1, Len(m))

\* U[:, :k] @ np.diag(s[:k]) @ Vt[:k, :] after U, s, Vt = np.linalg.svd(m):
\* a matrix of the SHAPE OF m (rows of U by columns of Vt), m with the
\* singular components beyond the k-th removed.  It is m itself when m has
\* rank <= k (the removed singular values are zero); otherwise the removed
\* part, not computable in fixed point, is the drawn `residual`.
SVDProject(m, k, residual) ==
    IF Rank(m) <= k THEN m ELSE MatSub(m, residual)

\* ------------------------------------------------- numpy: np.corrcoef

\* digits of |num| / den after the unit, three of them, without overflow
FracMilli(num, den) ==
    LET q0 == num \div den
        r0 == num % den
        d1 == (r0 * 10) \div den
        r1 == (r0 * 10) % den
        d2 == (r1 * 10) \div den
        r2 == (r1 * 10) % den
        d3 == (r2 * 10) \div den
    IN q0 * 1000 + d1 * 100 + d2 * 10 + d3

\* sqrt(x * y) for sums of squares x, y >= 0
SqrtProd(x, y) ==
    IF x <= 40000 /\ y <= 40000 THEN ISqrt(x * y)
    ELSE IF x <= 200000 /\ y <= 40000000 THEN (ISqrt(x * 10000) * ISqrt(y)) \div 100
    ELSE IF y <= 200000 /\ x <= 40000000 THEN (ISqrt(y * 10000) * ISqrt(x)) \div 100
    ELSE ISqrt(x) * ISqrt(y)

\* np.corrcoef(xs, ys)[0, 1] in thousandths, or nan when one of the two is
\* constant (0/0 in numpy: a warning and nan, no exception); numpy clips the
\* coefficient to [-1, 1]
corrcoef(xs, ys) ==
    LET n    == Len(xs)
        mx   == DivRound(SeqSum(xs), n)
        my   == DivRound(SeqSum(ys), n)
        sxy  == SeqSum([p \in 1..n |-> (xs[p] - mx) * (ys[p] - my)])
        sxx  == SeqSum([p \in 1..n |-> (xs[p] - mx) * (xs[p] - mx)])
        syy  == SeqSum([p \in 1..n |-> (ys[p] - my) * (ys[p] - my)])
        constx == \A p \in 1..n : xs[p] = xs[1]
        consty == \A p \in 1..n : ys[p] = ys[1]
    IN IF constx \/ consty THEN [nan |-> TRUE, val |-> 0]
       ELSE LET den == Max(1, SqrtProd(sxx, syy))
                mag == Min(1000, FracMilli(Abs(sxy), den))
            IN [nan |-> FALSE, val |-> IF sxy < 0 THEN -mag ELSE mag]

\* --------------------------------------- quantum_coupling.py: QuantumCoupling

ForceTypes == {"strong", "electromagnetic", "weak", "universal"}

\* preferred_orders of _find_stable_state
PreferredOrders(force_type) ==
    IF force_type = "strong" THEN <<3, 5, 7>>
    ELSE IF force_type = "electromagnetic" THEN <<3, 5, 7, 9>>
    ELSE IF force_type = "weak" THEN <<3, 5>>
    ELSE <<3, 5, 7, 9, 11>>

\* the filter with <= for <
EligibleOrder_Inclusive(o, n_transition) == o <= n_transition /\ o >= 3

\* the filter of target_orders: o < n_transition and o >= 3
EligibleOrder(o, n_transition) == o < n_transition /\ o >= 3

TargetOrders(force_type, n_transition) ==
    SelectSeq(PreferredOrders(force_type), LAMBDA o : EligibleOrder(o, n_transition))

\* the block layout of both _form_transition_state: `base` outside the two
\* diagonal blocks, base + a on the top-left n_a x n_a block, base + b on
\* the bottom-right block
\* both blocks laid on the top-left corner of a max(n_a, n_b) square
BlockEmbed_SharedCorner(base, a, b) ==
    LET n_a == Order(a)
        n_b == Order(b)
        n   == Max(n_a, n_b)
    IN [i \in 1..n |-> [j \in 1..n |->
          (IF i <= n_a /\ j <= n_a THEN a[i][j] ELSE 0)
          + (IF i <= n_b /\ j <= n_b THEN b[i][j] ELSE 0)
          + (IF i <= Len(base) /\ j <= Len(base) THEN base[i][j] ELSE 0)]]

\* a.shape[1] of a 2-D array
Cols(m) == IF Len(m) = 0 THEN 0 ELSE Len(m[1])

\* transition[:n, :n] = a (or += a) with n = a.shape[0]: numpy takes an
\* n x n array, stretches an n x 1 array over the columns, and raises
\* ValueError (could not broadcast) for any other width
SliceAssignable(a) == Cols(a) = Order(a) \/ Cols(a) = 1

\* the entry the slice assignment writes at (i, j) of the block
Cell(a, i, j) == IF Cols(a) = 1 THEN a[i][1] ELSE a[i][j]

BlockEmbed(base, a, b) ==
    LET n_a == Order(a)
        n_b == Order(b)
        transition_order == n_a + n_b
    IN [i \in 1..transition_order |-> [j \in 1..transition_order |->
          IF i <= n_a /\ j <= n_a THEN base[i][j] + Cell(a, i, j)
          ELSE IF i > n_a /\ j > n_a THEN base[i][j] + Cell(b, i - n_a, j - n_a)
          ELSE base[i][j]]]

\* QuantumCoupling._form_transition_state: zeros, the two blocks assigned,
\* plus the drawn quantum_fluctuation
QFormTransitionState(a, b, quantum_fluctuation) ==
    MatAdd(BlockEmbed(Zeros(Order(a) + Order(b)), a, b), quantum_fluctuation)

\* the correlation itself for (correlation + 1) / 2
QCalculateMatch_Signed(transition, candidate) ==
    LET min_size == Min(Order(transition), Order(candidate))
    IN IF min_size < 2 THEN 500
       ELSE LET correlation == corrcoef(FlattenSub(transition, min_size),
                                        FlattenSub(candidate, min_size))
            IN IF correlation.nan THEN 0
               ELSE correlation.val

\* QuantumCoupling._calculate_match, in thousandths; max(0, nan) is 0
QCalculateMatch(transition, candidate) ==
    LET min_size == Min(Order(transition), Order(candidate))
    IN IF min_size < 2 THEN 500
       ELSE LET correlation == corrcoef(FlattenSub(transition, min_size),
                                        FlattenSub(candidate, min_size))
            IN IF correlation.nan THEN 0
               ELSE Max(0, (correlation.val + 1000) \div 2)

\* the three terms added without their weights
QEvaluateCandidate_Unweighted(transition, candidate) ==
    LET magic_quality == DivRound(1000 * Fix(1), Fix(1) + calculate_imbalance(candidate))
        match_score   == QCalculateMatch(transition, candidate)
        parity_bonus  == IF Order(candidate) % 2 = 1 THEN 1000 ELSE 300
    IN 10 * (magic_quality + match_score + parity_bonus)

\* QuantumCoupling._evaluate_candidate, in ten-thousandths
QEvaluateCandidate(transition, candidate) ==
    LET magic_quality == DivRound(1000 * Fix(1), Fix(1) + calculate_imbalance(candidate))
        match_score   == QCalculateMatch(transition, candidate)
        parity_bonus  == IF Order(candidate) % 2 = 1 THEN 1000 ELSE 300
    IN 4 * magic_quality + 3 * match_score + 3 * parity_bonus

\* the match term alone for the whole evaluation
QCalculateStability_MatchOnly(transition, stable) ==
    10 * QCalculateMatch(transition, stable)

\* QuantumCoupling._calculate_stability
QCalculateStability(transition, stable) == QEvaluateCandidate(transition, stable)

\* the matrix np.random.normal draws in create_approximate_magic_square,
\* draw number v: a deviation of v tenths of the average on one entry
\* (v = 0: none), on the diagonal when v is even
VariationDraw(order, v) ==
    LET avg_value == ((Fix(order) * (order * order + 1)) \div 2) \div order
    IN IF v = 0 THEN Zeros(order)
       ELSE Bump(order, 1, IF v % 2 = 0 THEN 1 ELSE 2, (v * avg_value) \div 10)

\* the part the SVD truncation removes from a matrix of order n whose rank
\* exceeds the target, draw number r: r + 1 twentieths on the last diagonal
\* entry
ResidualDraw(n, r) == Bump(n, n, n, (r + 1) * 5)

\* np.linalg.svd returned: outcome -1 is LinAlgError ("SVD did not converge"),
\* an outcome r >= 0 numbers the part the truncation removes
Converged(outcome) == outcome >= 0

\* QuantumCoupling._generate_candidate; v is the draw of the approximate
\* square and r the outcome of np.linalg.svd.  Inside the try, order 0 ends
\* create_approximate_magic_square with ZeroDivisionError (magic_sum / order)
\* and a failed SVD with LinAlgError: both are swallowed and None returned
QGenerateCandidate(transition, target_order, threshold, v, r) ==
    IF target_order = 0 THEN None
    ELSE LET first == IF target_order = 3 THEN generate_magic_square_3x3
                      ELSE IF target_order = 5 THEN generate_magic_square_5x5
                      ELSE create_approximate_magic_square(target_order,
                                                           VariationDraw(target_order, v))
             decompose == ~is_magic_square(first, Fix(1))
                          /\ target_order <= Order(transition)
             candidate == IF decompose
                          THEN SVDProject(transition, target_order,
                                          ResidualDraw(Order(transition), r))
                          ELSE first
         IN IF decompose /\ ~Converged(r) THEN None
            ELSE IF is_magic_square(candidate, threshold) THEN Some(candidate)
            ELSE None

\* _generate_candidate(_, target_order) calls create_approximate_magic_square,
\* and so np.random.normal once, for every order but 3 and 5
DrawsFromGenerator(target_order) == target_order \notin {3, 5}

\* the number of np.random.normal calls one search over `orders` makes
ApproximateCalls(orders) ==
    Len(SelectSeq(orders, LAMBDA o : DrawsFromGenerator(o)))

\* the loop with best_candidate assigned outside the comparison
RECURSIVE QSearchLoop_LastWins(_, _, _, _, _, _, _, _)
QSearchLoop_LastWins(transition, orders, from, threshold, draws, r, best_candidate, best_score) ==
    IF from > Len(orders) THEN [candidate |-> best_candidate, score |-> best_score]
    ELSE LET drawn == DrawsFromGenerator(orders[from])
             v == IF drawn THEN Head(draws) ELSE 0
             rest == IF drawn THEN Tail(draws) ELSE draws
             candidate == QGenerateCandidate(transition, orders[from], threshold, v, r)
         IN IF candidate.some
            THEN LET score == QEvaluateCandidate(transition, candidate.val)
                 IN QSearchLoop_LastWins(transition, orders, from + 1, threshold, rest, r,
                                         candidate, Max(score, best_score))
            ELSE QSearchLoop_LastWins(transition, orders, from + 1, threshold, rest, r,
                                     best_candidate, best_score)

\* the loop with >= for >
RECURSIVE QSearchLoop_LaterWinsTies(_, _, _, _, _, _, _, _)
QSearchLoop_LaterWinsTies(transition, orders, from, threshold, draws, r, best_candidate, best_score) ==
    IF from > Len(orders) THEN [candidate |-> best_candidate, score |-> best_score]
    ELSE LET drawn == DrawsFromGenerator(orders[from])
             v == IF drawn THEN Head(draws) ELSE 0
             rest == IF drawn THEN Tail(draws) ELSE draws
             candidate == QGenerateCandidate(transition, orders[from], threshold, v, r)
         IN IF candidate.some
            THEN LET score == QEvaluateCandidate(transition, candidate.val)
                 IN IF score >= best_score
                    THEN QSearchLoop_LaterWinsTies(transition, orders, from + 1, threshold,
                                                   rest, r, candidate, score)
                    ELSE QSearchLoop_LaterWinsTies(transition, orders, from + 1, threshold,
                                                   rest, r, best_candidate, best_score)
            ELSE QSearchLoop_LaterWinsTies(transition, orders, from + 1, threshold, rest, r,
                                          best_candidate, best_score)

\* the loop of _find_stable_state over target_orders[from..], carrying
\* best_candidate and best_score; `draws` are the numbers of the draws the
\* generator hands to the approximate squares, in call order
RECURSIVE QSearchLoop(_, _, _, _, _, _, _, _)
QSearchLoop(transition, orders, from, threshold, draws, r, best_candidate, best_score) ==
    IF from > Len(orders) THEN [candidate |-> best_candidate, score |-> best_score]
    ELSE LET drawn == DrawsFromGenerator(orders[from])
             v == IF drawn THEN Head(draws) ELSE 0
             rest == IF drawn THEN Tail(draws) ELSE draws
             candidate == QGenerateCandidate(transition, orders[from], threshold, v, r)
         IN IF candidate.some
            THEN LET score == QEvaluateCandidate(transition, candidate.val)
                 IN IF score > best_score
                    THEN QSearchLoop(transition, orders, from + 1, threshold, rest, r,
                                     candidate, score)
                    ELSE QSearchLoop(transition, orders, from + 1, threshold, rest, r,
                                     best_candidate, best_score)
            ELSE QSearchLoop(transition, orders, from + 1, threshold, rest, r,
                            best_candidate, best_score)

\* QuantumCoupling._find_stable_state; best_score starts at -1 (-10000)
QFindStableState(transition, force_type, threshold, draws, r) ==
    LET target_orders == TargetOrders(force_type, Order(transition))
        best == QSearchLoop(transition, target_orders, 1, threshold, draws, r, None, -10000)
    IN IF best.score > 3000 THEN best.candidate ELSE None

\* QuantumCoupling.couple_particles from the search result on: the fields
\* 'success', 'stable_state' and 'stability' of the returned dict
QPackage(transition, stable) ==
    IF stable.some
    THEN LET stability == QCalculateStability(transition, stable.val)
         IN [success |-> stability > 3000, stability |-> stability]
    ELSE [success |-> FALSE, stability |-> 0]

\* ------------------------------- MATHEMATICS/magic_coupling.py: MagicCoupling

\* the strength left out
Scaled_Ignored(m, strength) == m

\* a * strength, the strength in hundredths
Scaled(m, strength) ==
    [i \in 1..Len(m) |-> [j \in 1..Len(m[i]) |-> DivRound(m[i][j] * strength, 100)]]

\* MagicCoupling._form_transition_state: the drawn np.random.rand matrix
\* with a * strength and b * strength added to the two blocks
MFormTransitionState(a, b, strength, rand) ==
    BlockEmbed(rand, Scaled(a, strength), Scaled(b, strength))

\* MagicCoupling._is_valid_magic_configuration with tolerance 0.1:
\* imbalance / (n * n) < 0.1
MIsValidMagicConfiguration(square) ==
    IF Order(square) < 3 THEN FALSE
    ELSE core_calculate_imbalance(square).val * 10 < Fix(Order(square) * Order(square))

\* MagicCoupling._collapse_to_stable; r numbers the part removed by the SVD
\* truncation
MCollapseToStable(transition, r) ==
    LET n_transition == Order(transition)
        target_order == IF (n_transition - 1) % 2 = 1 THEN n_transition - 1
                        ELSE n_transition - 2
    IN IF target_order < 3 THEN None
       ELSE LET stable_square == SVDProject(transition, target_order,
                                            ResidualDraw(n_transition, r))
            IN IF MIsValidMagicConfiguration(stable_square)
               THEN Some(stable_square) ELSE None

\* _collapse_to_stable calls np.linalg.svd outside any try: a LinAlgError
\* leaves couple_squares as an exception
MCollapseConsultsSVD(transition) ==
    LET n_transition == Order(transition)
        target_order == IF (n_transition - 1) % 2 = 1 THEN n_transition - 1
                        ELSE n_transition - 2
    IN target_order >= 3

MCollapseRaises(transition, r) == MCollapseConsultsSVD(transition) /\ ~Converged(r)

\* np.linalg.norm(m): the Frobenius norm
FrobeniusNorm(m) ==
    ISqrt(SeqSum([i \in 1..Len(m) |-> SeqSum([j \in 1..Len(m) |-> m[i][j] * m[i][j]])]))

\* np.tanh(x) in thousandths: x(27 + x^2) / (27 + 9 x^2) inside (-3, 3)
Tanh(x) ==
    IF x >= Fix(3) THEN 1000
    ELSE IF x <= -Fix(3) THEN -1000
    ELSE (10 * x * (270000 + x * x)) \div (270000 + 9 * x * x)

\* the score left unclamped
MCalculateStabilityScore_Unclamped(transition, stable) ==
    IF ~stable.some THEN 0
    ELSE LET imbalance == core_calculate_imbalance(stable.val)
             stable_quality == DivRound(1000 * Fix(1), Fix(1) + imbalance.val)
             stability_from_energy ==
                 IF Order(transition) > Order(stable.val)
                 THEN Tanh(FrobeniusNorm(transition) - FrobeniusNorm(stable.val))
                 ELSE 500
             parity_bonus == IF Order(stable.val) % 2 = 1 THEN 1000 ELSE 300
         IN 4 * stable_quality + 4 * stability_from_energy + 2 * parity_bonus

\* MagicCoupling._calculate_stability_score, in ten-thousandths; with a nan
\* imbalance final_score is nan and min(1.0, max(0.0, nan)) is 0.0
MCalculateStabilityScore(transition, stable) ==
    IF ~stable.some THEN 0
    ELSE LET imbalance == core_calculate_imbalance(stable.val)
             stable_quality == DivRound(1000 * Fix(1), Fix(1) + imbalance.val)
             stability_from_energy ==
                 IF Order(transition) > Order(stable.val)
                 THEN Tanh(FrobeniusNorm(transition) - FrobeniusNorm(stable.val))
                 ELSE 500
             parity_bonus == IF Order(stable.val) % 2 = 1 THEN 1000 ELSE 300
             final_score  == 4 * stable_quality + 4 * stability_from_energy
                             + 2 * parity_bonus
         IN IF imbalance.nan THEN 0 ELSE Min(10000, Max(0, final_score))

\* ForceCouplingRules._strong_force_coupling on the result of couple_squares:
\* the stability_score it leaves in the result
StrongForceScore(stable, stability_score) ==
    IF stable.some /\ Order(stable.val) \in {3, 5}
    THEN Min(10000, stability_score + 3000)
    ELSE stability_score

\* MagicCoupling.couple_squares from the collapse on: the fields
\* 'coupling_success' and 'stability_score' of the returned dict
MPackage(transition, stable) ==
    [success |-> stable.some, stability |-> MCalculateStabilityScore(transition, stable)]

\* ------------------------------------------------------------------ bounds

\* the random draws are numbered 0..Max*
MaxNoise == 2
MaxRand == 2
MaxVariation == 2
MaxResidual == 1

\* quantum_fluctuation = np.random.normal(0, 0.05, (n, n)), draw number z:
\* z twentieths on the first entry, negative when z is odd
NoiseDraw(n, z) == Bump(n, 1, 1, IF z % 2 = 1 THEN -(5 * z) ELSE 5 * z)

\* np.random.rand(n, n), draw number u: 0.50 everywhere, one entry raised
RandDraw(n, u) == MatAdd(Full(n, 50), Bump(n, 2, 1, (30 * u) % 50))

\* the callers' matrices: 1x1, 2x2 and 4x4 and 5x5 zero squares, the Lo Shu
\* square, the non-magic test matrix of magic_square_core.py, and a 5x5
\* square with a single 2.00
Inputs ==
    { << <<Fix(1)>> >>,
      Zeros(2),
      generate_magic_square_3x3,
      << <<Fix(1), Fix(2), Fix(3)>>, <<Fix(4), Fix(5), Fix(6)>>, <<Fix(7), Fix(8), Fix(9)>> >>,
      Zeros(4),
      Zeros(5),
      Bump(5, 1, 1, Fix(2)) }

\* QuantumCoupling(stability_threshold): the default 0.8, and 0.1
Thresholds == {80, 10}

\* coupling_strength: force_strengths of force_coupling_rules.py (1e-39 is 0
\* at this resolution)
Strengths == {100, 10, 1, 0}

\* ------------------------------------------------------------------- state

VARIABLES
    pc,          \* "idle", "compose", "search", "package", "done", "raised"
    engine,      \* "Quantum" (couple_particles) or "Magic" (couple_squares)
    heap,        \* the arrays: object name -> None or Some(matrix)
    given,       \* the two input matrices as the caller passed them
    force_type,  \* argument of couple_particles
    strength,    \* argument of couple_squares
    threshold,   \* self.stability_threshold of the engine
    noise,       \* the random matrix drawn by _form_transition_state
    transition,  \* name of the array bound to `transition`, or "unset"
    stable,      \* name of the array bound to `stable`, "None" or "unset"
    result,      \* the returned dict, once packaged
    probe,       \* the last direct call of a validator, scorer or builder
    tape,        \* the global generator np.random: the draws it has handed
                 \* out since it was seeded, in order
    pos,         \* the index in `tape` of the generator's next draw
    svd,         \* what np.linalg.svd does with this call's transition
                 \* matrix, once it has run
    earlier,     \* what the same call returned before the caller repeated it
    peer         \* a second couple_particles call, on another thread

vars == <<pc, engine, heap, given, force_type, strength, threshold, noise,
          transition, stable, result, probe, tape, pos, svd, earlier, peer>>

Objects == {"a", "b", "transition", "stable"}

EmptyHeap == [o \in Objects |-> None]

NoResult == [success |-> FALSE, stability |-> 0,
             transition_state |-> "unset", stable_state |-> "unset"]

NoProbe == [asked |-> FALSE, matrix |-> << >>, tolerance |-> 0,
            answer |-> FALSE, core_raised |-> "", core_answer |-> FALSE,
            exact |-> FALSE, imbalance |-> 0,
            core_imbalance |-> [nan |-> FALSE, val |-> 0],
            scored |-> FALSE, composite |-> << >>,
            q_score |-> 0, m_score |-> 0, strong_score |-> 0,
            built |-> FALSE, order |-> 0, decomposed |-> FALSE, candidate |-> None]

Unseeded == << >>

SvdUnknown == [known |-> FALSE, outcome |-> 0]

NoEarlier == [set |-> FALSE, success |-> FALSE, stability |-> 0,
              transition_state |-> None, stable_state |-> None]

IdlePeer == [pc |-> "idle", a |-> << >>, b |-> << >>, force_type |-> "universal",
             transition |-> None, stable |-> None,
             success |-> FALSE, stability |-> 0]

\* the value a name is bound to
Deref(h, name) == IF name \in Objects THEN h[name] ELSE None

\* the generator is a fixed stream: its draws number p, p + 1, ... are the
\* ones on the tape t where the tape has them, and not yet known beyond it.
\* The sequences of k draw numbers in 0..max it can hand out from p:
Draws(t, p, k, max) ==
    { ds \in [1..k -> 0..max] :
        \A i \in 1..k : (p + i - 1 <= Len(t)) => ds[i] = t[p + i - 1] }

\* the tape once the draws ds were handed out from p
TapeAfter(t, p, ds) ==
    [i \in 1..Max(Len(t), p + Len(ds) - 1) |->
        IF i <= Len(t) THEN t[i] ELSE ds[i - p + 1]]

\* the outcomes np.linalg.svd can have on the transition matrix: a
\* function of the matrix, so the known one once it has run
SvdOutcomes(s) == IF s.known THEN {s.outcome} ELSE -1..MaxResidual

\* the draw the approximate square of orders[i] gets out of ds
DrawFor(orders, i, ds) ==
    IF DrawsFromGenerator(orders[i])
    THEN ds[ApproximateCalls(SubSeq(orders, 1, i))]
    ELSE 0

\* _find_stable_state runs np.linalg.svd(transition): some approximate
\* square of its target orders fails is_magic_square at tolerance 1.0
QSearchConsultsSVD(orders, ds) ==
    \E i \in 1..Len(orders) :
        /\ DrawsFromGenerator(orders[i])
        /\ ~is_magic_square(create_approximate_magic_square(
                                orders[i], VariationDraw(orders[i], DrawFor(orders, i, ds))),
                            Fix(1))

Init ==
    /\ pc = "idle"
    /\ engine = "Quantum"
    /\ heap = EmptyHeap
    /\ given = << << >>, << >> >>
    /\ force_type = "universal"
    /\ strength = 100
    /\ threshold = 80
    /\ noise = << >>
    /\ transition = "unset"
    /\ stable = "unset"
    /\ result = NoResult
    /\ probe = NoProbe
    /\ tape = Unseeded
    /\ pos = 1
    /\ svd = SvdUnknown
    /\ earlier = NoEarlier
    /\ peer = IdlePeer

\* the caller builds two particles and calls couple_particles
CallQuantum(a, b, ft, th) ==
    /\ pc = "idle"
    /\ pc' = "compose"
    /\ engine' = "Quantum"
    /\ heap' = [EmptyHeap EXCEPT !["a"] = Some(a), !["b"] = Some(b)]
    /\ given' = <<a, b>>
    /\ force_type' = ft
    /\ threshold' = th
    /\ strength' = 100
    /\ noise' = << >>
    /\ transition' = "unset"
    /\ stable' = "unset"
    /\ result' = NoResult
    /\ UNCHANGED <<probe, tape, pos, svd, earlier, peer>>

\* the caller calls couple_squares
CallMagic(a, b, st) ==
    /\ pc = "idle"
    /\ pc' = "compose"
    /\ engine' = "Magic"
    /\ heap' = [EmptyHeap EXCEPT !["a"] = Some(a), !["b"] = Some(b)]
    /\ given' = <<a, b>>
    /\ strength' = st
    /\ force_type' = "universal"
    /\ threshold' = 10
    /\ noise' = << >>
    /\ transition' = "unset"
    /\ stable' = "unset"
    /\ result' = NoResult
    /\ UNCHANGED <<probe, tape, pos, svd, earlier, peer>>

\* the fluctuation added to the input array in place
QComposeHeap_InPlace(h, nz) ==
    LET a == h["a"].val
        b == h["b"].val
        fluct == NoiseDraw(Order(a) + Order(b), nz)
        a2 == [i \in 1..Order(a) |-> [j \in 1..Order(a) |-> a[i][j] + fluct[i][j]]]
    IN [h EXCEPT !["a"] = Some(a2),
                 !["transition"] = Some(QFormTransitionState(a, b, fluct))]

\* the heap after QuantumCoupling._form_transition_state: np.zeros and the
\* sum allocate; a and b are only read
QComposeHeap(h, nz) ==
    LET a == h["a"].val
        b == h["b"].val
    IN [h EXCEPT !["transition"] =
            Some(QFormTransitionState(a, b, NoiseDraw(Order(a) + Order(b), nz)))]

\* a *= strength for a * strength: the input scaled in place
MComposeHeap_InPlace(h, st, u) ==
    LET a == h["a"].val
        b == h["b"].val
    IN [h EXCEPT !["a"] = Some(Scaled(a, st)),
                 !["transition"] =
            Some(MFormTransitionState(a, b, st, RandDraw(Order(a) + Order(b), u)))]

\* the heap after MagicCoupling._form_transition_state: np.random.rand
\* allocates, a * strength and b * strength are temporaries
MComposeHeap(h, st, u) ==
    LET a == h["a"].val
        b == h["b"].val
    IN [h EXCEPT !["transition"] =
            Some(MFormTransitionState(a, b, st, RandDraw(Order(a) + Order(b), u)))]

\* transition = self._form_transition_state(magic_a, magic_b): the slice
\* assignments come before the draw, and their ValueError leaves
\* couple_particles as an exception
QCompose ==
    /\ pc = "compose" /\ engine = "Quantum"
    /\ IF SliceAssignable(heap["a"].val) /\ SliceAssignable(heap["b"].val)
       THEN \E ds \in Draws(tape, pos, 1, MaxNoise) :
              /\ heap' = QComposeHeap(heap, ds[1])
              /\ noise' = NoiseDraw(Order(heap["a"].val) + Order(heap["b"].val), ds[1])
              /\ tape' = TapeAfter(tape, pos, ds)
              /\ pos' = pos + 1
              /\ transition' = "transition"
              /\ pc' = "search"
       ELSE /\ pc' = "raised"
            /\ UNCHANGED <<heap, noise, tape, pos, transition>>
    /\ UNCHANGED <<engine, given, force_type, strength, threshold, stable, result,
                   probe, svd, earlier, peer>>

\* transition_square = self._form_transition_state(square_a, square_b,
\* strength): np.random.rand draws first, then the two += on the slices
MCompose ==
    /\ pc = "compose" /\ engine = "Magic"
    /\ \E ds \in Draws(tape, pos, 1, MaxRand) :
          /\ tape' = TapeAfter(tape, pos, ds)
          /\ pos' = pos + 1
          /\ noise' = RandDraw(Order(heap["a"].val) + Order(heap["b"].val), ds[1])
          /\ IF SliceAssignable(heap["a"].val) /\ SliceAssignable(heap["b"].val)
             THEN /\ heap' = MComposeHeap(heap, strength, ds[1])
                  /\ transition' = "transition"
                  /\ pc' = "search"
             ELSE /\ pc' = "raised"
                  /\ UNCHANGED <<heap, transition>>
    /\ UNCHANGED <<engine, given, force_type, strength, threshold, stable, result,
                   probe, svd, earlier, peer>>

\* stable = self._find_stable_state(transition, force_type)
QSearch ==
    /\ pc = "search" /\ engine = "Quantum"
    /\ LET orders == TargetOrders(force_type, Order(heap[transition].val))
       IN \E ds \in Draws(tape, pos, ApproximateCalls(orders), MaxVariation) :
          \E r \in (IF QSearchConsultsSVD(orders, ds) THEN SvdOutcomes(svd) ELSE {0}) :
             LET found == QFindStableState(heap[transition].val, force_type,
                                           threshold, ds, r)
             IN /\ heap' = [heap EXCEPT !["stable"] = found]
                /\ stable' = IF found.some THEN "stable" ELSE "None"
                /\ tape' = TapeAfter(tape, pos, ds)
                /\ pos' = pos + Len(ds)
                /\ svd' = IF QSearchConsultsSVD(orders, ds)
                          THEN [known |-> TRUE, outcome |-> r] ELSE svd
    /\ pc' = "package"
    /\ UNCHANGED <<engine, given, force_type, strength, threshold, noise, transition,
                   result, probe, earlier, peer>>

\* stable_square = self._collapse_to_stable(transition_square)
MSearch ==
    /\ pc = "search" /\ engine = "Magic"
    /\ \E r \in (IF MCollapseConsultsSVD(heap[transition].val)
                 THEN SvdOutcomes(svd) ELSE {0}) :
          /\ svd' = IF MCollapseConsultsSVD(heap[transition].val)
                    THEN [known |-> TRUE, outcome |-> r] ELSE svd
          /\ IF MCollapseRaises(heap[transition].val, r)
             THEN /\ pc' = "raised"
                  /\ UNCHANGED <<heap, stable>>
             ELSE LET found == MCollapseToStable(heap[transition].val, r)
                  IN /\ heap' = [heap EXCEPT !["stable"] = found]
                     /\ stable' = IF found.some THEN "stable" ELSE "None"
                     /\ pc' = "package"
    /\ UNCHANGED <<engine, given, force_type, strength, threshold, noise, transition,
                   result, probe, tape, pos, earlier, peer>>

\* the rest of couple_particles: stability, success and the returned dict
QReturn ==
    /\ pc = "package" /\ engine = "Quantum"
    /\ LET p == QPackage(heap[transition].val, Deref(heap, stable))
       IN result' = [success |-> p.success, stability |-> p.stability,
                     transition_state |-> transition, stable_state |-> stable]
    /\ pc' = "done"
    /\ UNCHANGED <<engine, heap, given, force_type, strength, threshold, noise,
                   transition, stable, probe, tape, pos, svd, earlier, peer>>

\* the rest of couple_squares: stability_score and the returned dict
MReturn ==
    /\ pc = "package" /\ engine = "Magic"
    /\ LET p == MPackage(heap[transition].val, Deref(heap, stable))
       IN result' = [success |-> p.success, stability |-> p.stability,
                     transition_state |-> transition, stable_state |-> stable]
    /\ pc' = "done"
    /\ UNCHANGED <<engine, heap, given, force_type, strength, threshold, noise,
                   transition, stable, probe, tape, pos, svd, earlier, peer>>

\* the caller drops the result (or the exception) and its particles; the
\* next call finds the generator in a state of its own
Release ==
    /\ pc \in {"done", "raised"}
    /\ peer.pc = "idle"
    /\ pc' = "idle"
    /\ engine' = "Quantum"
    /\ heap' = EmptyHeap
    /\ given' = << << >>, << >> >>
    /\ force_type' = "universal"
    /\ strength' = 100
    /\ threshold' = 80
    /\ noise' = << >>
    /\ transition' = "unset"
    /\ stable' = "unset"
    /\ result' = NoResult
    /\ tape' = Unseeded
    /\ pos' = 1
    /\ svd' = SvdUnknown
    /\ earlier' = NoEarlier
    /\ UNCHANGED <<probe, peer>>

Next ==
    \/ \E a \in Inputs, b \in Inputs, ft \in ForceTypes, th \in Thresholds :
          CallQuantum(a, b, ft, th)
    \/ \E a \in Inputs, b \in Inputs, st \in Strengths : CallMagic(a, b, st)
    \/ QCompose
    \/ MCompose
    \/ QSearch
    \/ MSearch
    \/ QReturn
    \/ MReturn
    \/ Release

Spec == Init /\ [][Next]_vars

\* ----------------------------------------- the same call again, reseeded

\* the caller reseeds the generator as it was before the call
\* (np.random.seed(s) again) and repeats the call on the same two arrays
Replay ==
    /\ pc = "done" /\ ~earlier.set
    /\ earlier' = [set |-> TRUE,
                   success |-> result.success,
                   stability |-> result.stability,
                   transition_state |-> Deref(heap, result.transition_state),
                   stable_state |-> Deref(heap, result.stable_state)]
    /\ pos' = 1
    /\ heap' = [heap EXCEPT !["transition"] = None, !["stable"] = None]
    /\ noise' = << >>
    /\ transition' = "unset"
    /\ stable' = "unset"
    /\ result' = NoResult
    /\ pc' = "compose"
    /\ UNCHANGED <<engine, given, force_type, strength, threshold, probe, tape, svd, peer>>

NextReplay == Next \/ Replay

SpecReplay == Init /\ [][NextReplay]_vars

\* ------------------------------------- a second call, on another thread

\* the matrices of the two concurrent calls: orders 1 and 3, so that no
\* search reaches an order with an approximate square
ConcurrentInputs == { << <<Fix(1)>> >>, generate_magic_square_3x3 }

\* another thread calls QuantumCoupling().couple_particles(a, b, ft)
PeerCall(a, b, ft) ==
    /\ peer.pc = "idle"
    /\ peer' = [IdlePeer EXCEPT !.pc = "compose", !.a = a, !.b = b, !.force_type = ft]
    /\ UNCHANGED <<pc, engine, heap, given, force_type, strength, threshold, noise,
                   transition, stable, result, probe, tape, pos, svd, earlier>>

\* its _form_transition_state: a draw from the same np.random
PeerCompose ==
    /\ peer.pc = "compose"
    /\ \E ds \in Draws(tape, pos, 1, MaxNoise) :
          /\ peer' = [peer EXCEPT
                         !.pc = "search",
                         !.transition =
                             Some(QFormTransitionState(
                                     peer.a, peer.b,
                                     NoiseDraw(Order(peer.a) + Order(peer.b), ds[1])))]
          /\ tape' = TapeAfter(tape, pos, ds)
          /\ pos' = pos + 1
    /\ UNCHANGED <<pc, engine, heap, given, force_type, strength, threshold, noise,
                   transition, stable, result, probe, svd, earlier>>

\* its _find_stable_state, with the default stability_threshold 0.8
PeerSearch ==
    /\ peer.pc = "search"
    /\ LET orders == TargetOrders(peer.force_type, Order(peer.transition.val))
       IN \E ds \in Draws(tape, pos, ApproximateCalls(orders), MaxVariation) :
          \E r \in (IF QSearchConsultsSVD(orders, ds) THEN -1..MaxResidual ELSE {0}) :
             /\ peer' = [peer EXCEPT
                            !.pc = "package",
                            !.stable = QFindStableState(peer.transition.val,
                                                        peer.force_type, 80, ds, r)]
             /\ tape' = TapeAfter(tape, pos, ds)
             /\ pos' = pos + Len(ds)
    /\ UNCHANGED <<pc, engine, heap, given, force_type, strength, threshold, noise,
                   transition, stable, result, probe, svd, earlier>>

\* the rest of its couple_particles
PeerReturn ==
    /\ peer.pc = "package"
    /\ LET p == QPackage(peer.transition.val, peer.stable)
       IN peer' = [peer EXCEPT !.pc = "done", !.success = p.success,
                               !.stability = p.stability]
    /\ UNCHANGED <<pc, engine, heap, given, force_type, strength, threshold, noise,
                   transition, stable, result, probe, tape, pos, svd, earlier>>

NextConcurrent ==
    \/ \E a \in ConcurrentInputs, b \in ConcurrentInputs :
          CallQuantum(a, b, "universal", 80)
    \/ QCompose
    \/ QSearch
    \/ QReturn
    \/ \E a \in ConcurrentInputs, b \in ConcurrentInputs : PeerCall(a, b, "universal")
    \/ PeerCompose
    \/ PeerSearch
    \/ PeerReturn

SpecConcurrent == Init /\ [][NextConcurrent]_vars

\* ------------------------------------------------------- malformed inputs

\* arrays that are no square matrix of order >= 1: np.zeros((0, 0)), a 3 x 1
\* column and a 2 x 3 array
MalformedInputs ==
    { << >>,
      << <<Fix(1)>>, <<Fix(2)>>, <<Fix(3)>> >>,
      << <<Fix(1), Fix(2), Fix(3)>>, <<Fix(4), Fix(5), Fix(6)>> >> }

\* the calls with such an array for one input or both
NextMalformed ==
    \/ \E a \in MalformedInputs \cup {generate_magic_square_3x3, Zeros(4)},
          b \in MalformedInputs, ft \in ForceTypes, th \in Thresholds :
          CallQuantum(a, b, ft, th) \/ CallQuantum(b, a, ft, th)
    \/ \E a \in MalformedInputs \cup {generate_magic_square_3x3, Zeros(4)},
          b \in MalformedInputs, st \in Strengths :
          CallMagic(a, b, st) \/ CallMagic(b, a, st)
    \/ QCompose
    \/ MCompose
    \/ QSearch
    \/ MSearch
    \/ QReturn
    \/ MReturn
    \/ Release

SpecMalformed == Init /\ [][NextMalformed]_vars

\* ------------------------------------------------- the validators, directly

\* entries of the probed 2x2 matrices are 0, 0.50, ..., MaxHalves * 0.50
MaxHalves == 2

Halves == {50 * k : k \in 0..MaxHalves}

\* the matrices is_magic_square and calculate_imbalance are probed with: the
\* empty matrix, 1x1 and 2x2 matrices, the Lo Shu square with one entry
\* moved by 0, 0.80 or 0.81 either way, and the canonical 5x5 square
ProbeMatrices ==
    { << >> }
    \cup { << <<x>> >> : x \in Halves }
    \cup { << <<w, x>>, <<y, z>> >> : w \in Halves, x \in Halves, y \in Halves, z \in Halves }
    \cup { MatAdd(generate_magic_square_3x3, Bump(3, r, c, d)) :
              r \in 1..3, c \in 1..3, d \in {-81, -80, 0, 80, 81} }
    \cup { generate_magic_square_5x5 }

\* the tolerances probed: exact, 0.50, 0.80 and 1.0
ProbeTolerances == {0, 50, 80, 100}

\* core_math.is_magic_square(m, tol) and (m, 0), core_math.calculate_imbalance(m),
\* magic_square_core.is_magic_square(m) and magic_square_core.calculate_imbalance(m)
Validate(m, tol) ==
    /\ pc = "idle" /\ probe = NoProbe
    /\ probe' = [NoProbe EXCEPT
                    !.asked = TRUE, !.matrix = m, !.tolerance = tol,
                    !.answer = is_magic_square(m, tol),
                    !.exact = is_magic_square(m, 0),
                    !.imbalance = calculate_imbalance(m),
                    !.core_raised = core_is_magic_square(m).raised,
                    !.core_answer = core_is_magic_square(m).value,
                    !.core_imbalance = core_calculate_imbalance(m)]
    /\ UNCHANGED <<pc, engine, heap, given, force_type, strength, threshold, noise,
                   transition, stable, result, tape, pos, svd, earlier, peer>>

\* the Lo Shu square taken from 10: a magic square that falls where the
\* Lo Shu square rises
Complement == [i \in 1..3 |-> [j \in 1..3 |-> Fix(10) - generate_magic_square_3x3[i][j]]]

TestMatrix ==
    << <<Fix(1), Fix(2), Fix(3)>>, <<Fix(4), Fix(5), Fix(6)>>, <<Fix(7), Fix(8), Fix(9)>> >>

\* the composites and the candidates the two scorers are probed with
ScoreComposites ==
    { generate_magic_square_3x3, TestMatrix, Zeros(4), Full(4, 50), Full(5, 50),
      MatAdd(Zeros(6), Bump(6, 1, 1, Fix(8))) }

ScoreCandidates ==
    { << >>, << <<Fix(1)>> >>, generate_magic_square_3x3, Complement, TestMatrix,
      Zeros(3), Full(4, 50), Full(5, 50), generate_magic_square_5x5 }

\* QuantumCoupling._evaluate_candidate(t, c),
\* MagicCoupling._calculate_stability_score(t, c) and the score
\* ForceCouplingRules._strong_force_coupling leaves for that pair
Score(t, c) ==
    /\ pc = "idle" /\ probe = NoProbe
    /\ probe' = [NoProbe EXCEPT
                    !.scored = TRUE, !.composite = t, !.matrix = c,
                    !.q_score = QEvaluateCandidate(t, c),
                    !.m_score = MCalculateStabilityScore(t, Some(c)),
                    !.strong_score =
                        StrongForceScore(Some(c), MCalculateStabilityScore(t, Some(c)))]
    /\ UNCHANGED <<pc, engine, heap, given, force_type, strength, threshold, noise,
                   transition, stable, result, tape, pos, svd, earlier, peer>>

\* the largest order the candidate builder is asked for
MaxBuildOrder == 7

\* the source matrices the builder is probed with
BuildSources == { generate_magic_square_3x3, Zeros(4), TestMatrix }

\* QuantumCoupling(th)._generate_candidate(source, order), with the draw v
\* of the approximate square and the SVD outcome r
Build(source, order, th, v, r) ==
    /\ pc = "idle" /\ probe = NoProbe
    /\ probe' = [NoProbe EXCEPT
                    !.built = TRUE, !.composite = source, !.order = order,
                    !.tolerance = th,
                    !.decomposed =
                        (/\ order > 0 /\ DrawsFromGenerator(order)
                         /\ ~is_magic_square(create_approximate_magic_square(
                                                 order, VariationDraw(order, v)), Fix(1))),
                    !.candidate = QGenerateCandidate(source, order, th, v, r)]
    /\ UNCHANGED <<pc, engine, heap, given, force_type, strength, threshold, noise,
                   transition, stable, result, tape, pos, svd, earlier, peer>>

\* the caller drops the answer
Forget ==
    /\ probe # NoProbe
    /\ probe' = NoProbe
    /\ UNCHANGED <<pc, engine, heap, given, force_type, strength, threshold, noise,
                   transition, stable, result, tape, pos, svd, earlier, peer>>

NextValidator ==
    \/ \E m \in ProbeMatrices, tol \in ProbeTolerances : Validate(m, tol)
    \/ \E t \in ScoreComposites, c \in ScoreCandidates : Score(t, c)
    \/ \E source \in BuildSources, order \in 0..MaxBuildOrder, th \in Thresholds,
          v \in 0..MaxVariation, r \in -1..MaxResidual :
          Build(source, order, th, v, r)
    \/ Forget

SpecValidator == Init /\ [][NextValidator]_vars

\* ------------------------------------------------------------------ claims

Transition == heap["transition"].val

Stable == heap["stable"].val

Composed == pc \in {"search", "package", "done"}

Searched == pc \in {"package", "done"}

\* C1: for both entry points, the returned success flag is true exactly when
\* the returned stable matrix is not None and the returned score is strictly
\* greater than 0.3
C1_SuccessIffStableAndScore ==
    pc = "done" =>
        (result.success <=> (result.stable_state # "None" /\ result.stability > 3000))

\* C2: a candidate returned by the search of either engine passes
\* is_magic_square at the engine's stability_threshold
C2_ReturnedCandidateIsMagic ==
    (Searched /\ stable = "stable") => is_magic_square(Stable, threshold)

\* C3: a stable matrix in a result has order >= 3 and an order strictly below
\* the order of the transition matrix
C3_StableOrderBelowComposite ==
    (Searched /\ stable = "stable") =>
        (Order(Stable) >= 3 /\ Order(Stable) < Order(Transition))

\* C4: a candidate returned by _find_stable_state scores strictly more than
\* 0.3; otherwise the search returns None
C4_ReturnedCandidateAboveThreshold ==
    (Searched /\ engine = "Quantum" /\ stable = "stable") =>
        QEvaluateCandidate(Transition, Stable) > 3000

C4_Witness ==
    Searched /\ engine = "Quantum" /\ stable = "stable"
             /\ Order(Stable) = 3 /\ Order(Transition) >= 8

\* no order the engine would try is below the order of the transition
\* matrix: for couple_particles every preferred order of the force type is
\* >= that order; couple_squares has a single target, the largest odd order
\* below the transition's, and it is none of the orders >= 3
NoEligibleOrder ==
    IF engine = "Quantum"
    THEN \A k \in 1..Len(PreferredOrders(force_type)) :
            PreferredOrders(force_type)[k] >= Order(Transition)
    ELSE \A o \in 3..(Order(Transition) - 1) : o % 2 = 0

\* C5: with no eligible target order the call returns success = false, no
\* stable matrix and a stability of exactly 0.0
C5_NoEligibleOrderFails ==
    (pc = "done" /\ NoEligibleOrder) =>
        (~result.success /\ result.stable_state = "None" /\ result.stability = 0)

C5_Witness ==
    pc = "done" /\ NoEligibleOrder /\ Order(Transition) = 3 /\ engine = "Quantum"

LoShu ==
    << <<800, 100, 600>>, <<300, 500, 700>>, <<400, 900, 200>> >>

\* C6: couple_particles on two Lo Shu squares returns success = true, a
\* stable matrix of order 3 and a stability in [0.3, 1.0], whatever the
\* fluctuation drawn
C6_LoShuPairCouples ==
    (pc = "done" /\ engine = "Quantum" /\ given = <<LoShu, LoShu>>) =>
        (/\ result.success
         /\ result.stable_state = "stable"
         /\ Order(Stable) = 3
         /\ result.stability >= 3000
         /\ result.stability <= 10000)

C6_Witness ==
    /\ pc = "done" /\ engine = "Quantum" /\ given = <<LoShu, LoShu>>
    /\ noise # Zeros(6)
    /\ result.success

\* C7: the transition matrix is square, of order order(a) + order(b)
C7_CompositeOrderIsSum ==
    Composed =>
        (/\ Order(Transition) = Order(given[1]) + Order(given[2])
         /\ \A i \in 1..Order(Transition) : Len(Transition[i]) = Order(Transition))

C7_Witness ==
    Composed /\ Order(given[1]) = 3 /\ Order(given[2]) = 5 /\ Order(Transition) = 8

\* C8: the transition matrix minus the random matrix drawn is a * strength
\* on the top-left block, b * strength on the bottom-right block and zero
\* on both off-diagonal blocks (couple_particles has strength 1.0)
C8_BlocksAreScaledInputs ==
    Composed =>
        LET n_a == Order(given[1])
        IN \A i \in 1..Order(Transition) : \A j \in 1..Order(Transition) :
              Transition[i][j] - noise[i][j] =
                 IF i <= n_a /\ j <= n_a
                 THEN (given[1][i][j] * strength) \div 100
                 ELSE IF i > n_a /\ j > n_a
                 THEN (given[2][i - n_a][j - n_a] * strength) \div 100
                 ELSE 0

C8_Witness ==
    /\ Composed /\ engine = "Magic" /\ strength = 10
    /\ given = <<LoShu, LoShu>>
    /\ Transition[1][1] - noise[1][1] = 80
    /\ Transition[4][4] - noise[4][4] = 80

\* C9: a call leaves both input arrays as the caller passed them, and the
\* transition and stable arrays of the result are arrays of their own
C9_InputsUntouched ==
    pc # "idle" =>
        (/\ heap["a"] = Some(given[1])
         /\ heap["b"] = Some(given[2])
         /\ transition \notin {"a", "b"}
         /\ stable \notin {"a", "b"}
         /\ result.transition_state \notin {"a", "b"}
         /\ result.stable_state \notin {"a", "b"})

C9_Witness ==
    /\ pc = "done" /\ result.stable_state = "stable"
    /\ noise # Zeros(Order(Transition))
    /\ heap["a"] = Some(given[1])

\* the cells of the 2N + 2 lines of a matrix of order n: rows, columns and
\* the two main diagonals
Lines(n) ==
    { {<<i, j>> : j \in 1..n} : i \in 1..n }
    \cup { {<<i, j>> : i \in 1..n} : j \in 1..n }
    \cup { {<<k, k>> : k \in 1..n}, {<<k, n + 1 - k>> : k \in 1..n} }

RECURSIVE CellSum(_, _)
CellSum(m, cells) ==
    IF cells = {} THEN 0
    ELSE LET c == CHOOSE x \in cells : TRUE
         IN m[c[1]][c[2]] + CellSum(m, cells \ {c})

\* every line sum is within tol of the sum of the first row
AllLinesWithin(m, tol) ==
    LET n == Len(m)
        first == CellSum(m, {<<1, j>> : j \in 1..n})
    IN \A line \in Lines(n) :
          /\ CellSum(m, line) - first <= tol
          /\ first - CellSum(m, line) <= tol

\* C10: is_magic_square returns false for a matrix of order 0, and for order
\* N >= 1 it returns true exactly when every row sum, column sum and main
\* diagonal sum is within the tolerance of the first row's sum; this for
\* core_math.is_magic_square at every tolerance and for
\* magic_square_core.is_magic_square, which compares exactly (tolerance 0)
C10_IsMagicContract ==
    probe.asked =>
        IF Order(probe.matrix) = 0
        THEN /\ probe.answer = FALSE
             /\ probe.core_raised = "" /\ probe.core_answer = FALSE
        ELSE /\ probe.answer = AllLinesWithin(probe.matrix, probe.tolerance)
             /\ probe.core_raised = ""
             /\ probe.core_answer = AllLinesWithin(probe.matrix, 0)

\* the part of C10 that is about core_math.is_magic_square alone
C10_CoreMathIsMagic ==
    probe.asked =>
        IF Order(probe.matrix) = 0 THEN probe.answer = FALSE
        ELSE probe.answer = AllLinesWithin(probe.matrix, probe.tolerance)

\* the sum, over the N rows, the N columns and the two main diagonals of m,
\* of the absolute difference between the line's sum and c
LineDeviation(m, c) ==
    LET n == Len(m)
        rows == [i \in 1..n |-> Abs(CellSum(m, {<<i, j>> : j \in 1..n}) - c)]
        cols == [j \in 1..n |-> Abs(CellSum(m, {<<i, j>> : i \in 1..n}) - c)]
    IN SeqSum(rows) + SeqSum(cols)
       + Abs(CellSum(m, {<<k, k>> : k \in 1..n}) - c)
       + Abs(CellSum(m, {<<k, n + 1 - k>> : k \in 1..n}) - c)

\* C11: for a matrix of order N >= 1 the imbalance is non-negative, and it is
\* zero exactly when is_magic_square(m, tolerance 0) is true; this for
\* calculate_imbalance of core_math and of magic_square_core
C11_ImbalanceZeroIffMagic ==
    (probe.asked /\ Order(probe.matrix) >= 1) =>
        (/\ probe.imbalance >= 0
         /\ (probe.imbalance = 0 <=> probe.exact)
         /\ ~probe.core_imbalance.nan
         /\ probe.core_imbalance.val >= 0
         /\ (probe.core_imbalance.val = 0 <=> probe.exact))

\* the part of C11 that is about magic_square_core.calculate_imbalance, and
\* the direction of it that core_math.calculate_imbalance keeps
C11_CoreVariantAndOneDirection ==
    (probe.asked /\ Order(probe.matrix) >= 1) =>
        (/\ probe.imbalance >= 0
         /\ (probe.imbalance = 0 => probe.exact)
         /\ ~probe.core_imbalance.nan
         /\ probe.core_imbalance.val >= 0
         /\ (probe.core_imbalance.val = 0 <=> probe.exact))

\* C12: the imbalance of a matrix of order N is the sum over its 2N + 2 lines
\* of the absolute difference between the line's sum and N(N^2 + 1)/2, the
\* matrix's own average playing no part; this for calculate_imbalance of
\* core_math and of magic_square_core
C12_ImbalanceFromTheoreticalConstant ==
    (probe.asked /\ Order(probe.matrix) >= 1) =>
        LET n == Order(probe.matrix)
            theoretical == (Fix(n) * (n * n + 1)) \div 2
        IN /\ probe.imbalance = LineDeviation(probe.matrix, theoretical)
           /\ ~probe.core_imbalance.nan
           /\ probe.core_imbalance.val = LineDeviation(probe.matrix, theoretical)

\* the part of C12 that is about core_math.calculate_imbalance alone
C12_CoreMathImbalance ==
    (probe.asked /\ Order(probe.matrix) >= 1) =>
        LET n == Order(probe.matrix)
        IN probe.imbalance = LineDeviation(probe.matrix, (Fix(n) * (n * n + 1)) \div 2)

\* C13: generate_magic_square_3x3 returns the rows [8,1,6], [3,5,7], [4,9,2];
\* for it and for the square of generate_magic_square_5x5, is_magic_square
\* at tolerance 0 is true and the imbalance is exactly 0 (both modules)
C13_CanonicalSquaresBalanced ==
    /\ generate_magic_square_3x3 = LoShu
    /\ (probe.asked
        /\ probe.matrix \in {generate_magic_square_3x3, generate_magic_square_5x5}) =>
           (/\ probe.exact
            /\ probe.imbalance = 0
            /\ probe.core_raised = "" /\ probe.core_answer
            /\ ~probe.core_imbalance.nan /\ probe.core_imbalance.val = 0)

C13_Witness ==
    /\ probe.asked /\ probe.matrix = generate_magic_square_5x5
    /\ probe.tolerance = 0 /\ probe.answer /\ probe.imbalance = 0

\* C14: every score lies in [0, 1]: _evaluate_candidate, the clamped
\* _calculate_stability_score (equal orders: the 0.5 branch; a smaller
\* candidate: tanh of a possibly negative norm difference; a nan
\* correlation or imbalance), and that score after the strong-force bonus
C14_ScoreInUnitInterval ==
    probe.scored =>
        (/\ probe.q_score >= 0 /\ probe.q_score <= 10000
         /\ probe.m_score >= 0 /\ probe.m_score <= 10000
         /\ probe.strong_score >= 0 /\ probe.strong_score <= 10000)

\* a candidate smaller than the composite and of larger norm: the energy
\* term is negative and the weighted sum is below zero
C14_Witness ==
    /\ probe.scored
    /\ probe.composite = Zeros(4) /\ probe.matrix = TestMatrix
    /\ MCalculateStabilityScore_Unclamped(probe.composite, Some(probe.matrix)) < 0
    /\ probe.m_score = 0

\* C17: _generate_candidate returns None for every order below 3, and, when
\* it turns to the SVD projection, for every order above the order of the
\* source matrix
C17_BuilderRejectsBadOrders ==
    probe.built =>
        (/\ (probe.order < 3 => ~probe.candidate.some)
         /\ ((probe.decomposed /\ probe.order > Order(probe.composite))
                => ~probe.candidate.some))

\* the part of C17 that is about the projection
C17_NoProjectionAboveSourceOrder ==
    (probe.built /\ probe.decomposed /\ probe.order > Order(probe.composite))
        => ~probe.candidate.some

\* C15: a call repeated with the same inputs and policy, from the same
\* generator state, returns the same transition matrix, stable matrix, score
\* and success flag as the first time
C15_SameSeedSameResult ==
    (pc = "done" /\ earlier.set) =>
        (/\ result.success = earlier.success
         /\ result.stability = earlier.stability
         /\ Deref(heap, result.transition_state) = earlier.transition_state
         /\ Deref(heap, result.stable_state) = earlier.stable_state)

C15_Witness ==
    /\ pc = "done" /\ earlier.set
    /\ engine = "Magic" /\ strength = 10 /\ given[1] = LoShu
    /\ noise # Full(Order(Transition), 50)
    /\ earlier.transition_state = Some(Transition)

\* C16: a numeric failure raised while a candidate is built (np.linalg.svd
\* not converging) fails that candidate only: no call ends with an
\* exception, and couple_particles still returns the candidate of an order
\* whose construction did not fail
C16_NumericFailureStaysLocal ==
    /\ pc # "raised"
    /\ (pc = "done" /\ engine = "Quantum" /\ svd.known /\ ~Converged(svd.outcome))
          => (result.success /\ result.stable_state = "stable")

\* the part of C16 that is about QuantumCoupling
C16_QuantumSwallowsFailure ==
    engine = "Quantum" =>
        (/\ pc # "raised"
         /\ (pc = "done" /\ svd.known /\ ~Converged(svd.outcome))
               => (result.success /\ result.stable_state = "stable"))

\* an input that is no square matrix of order >= 1
Malformed(m) == Order(m) = 0 \/ Cols(m) # Order(m)

\* C18: a call with a malformed input (not square, or of order 0) is
\* rejected before the transition matrix is built: it gets to no search and
\* returns no result
C18_MalformedRejectedAtEntry ==
    (pc # "idle" /\ (Malformed(given[1]) \/ Malformed(given[2]))) =>
        pc \notin {"search", "package", "done"}

\* what couple_particles(a, b, ft) returns when it runs alone from the
\* generator state whose draws are `stream` (orders without an approximate
\* square: the search draws nothing and runs no SVD)
QAlone(a, b, ft, th, stream) ==
    LET t == QFormTransitionState(a, b, NoiseDraw(Order(a) + Order(b), stream[1]))
        st == QFindStableState(t, ft, th, << >>, 0)
        p == QPackage(t, st)
    IN [transition_state |-> Some(t), stable_state |-> st,
        success |-> p.success, stability |-> p.stability]

\* C19: of two couple_particles calls on two threads, each returns what it
\* would return alone from the same initial generator state, whatever the
\* interleaving of their steps
C19_ConcurrentCallsIndependent ==
    /\ pc = "done" =>
          [transition_state |-> Deref(heap, result.transition_state),
           stable_state |-> Deref(heap, result.stable_state),
           success |-> result.success, stability |-> result.stability]
          = QAlone(given[1], given[2], force_type, threshold, tape)
    /\ peer.pc = "done" =>
          [transition_state |-> peer.transition, stable_state |-> peer.stable,
           success |-> peer.success, stability |-> peer.stability]
          = QAlone(peer.a, peer.b, peer.force_type, 80, tape)

\* the target orders of the finished search, the draws it took from the
\* generator and the SVD outcome it met
SearchOrders == TargetOrders(force_type, Order(Transition))

SearchDraws == SubSeq(tape, pos - ApproximateCalls(SearchOrders), pos - 1)

SearchOutcome == IF svd.known THEN svd.outcome ELSE 0

\* the candidate of the i-th target order, and its score
CandidateAt(i) ==
    QGenerateCandidate(Transition, SearchOrders[i], threshold,
                       DrawFor(SearchOrders, i, SearchDraws), SearchOutcome)

ScoreAt(i) == QEvaluateCandidate(Transition, CandidateAt(i).val)

Surviving == {i \in 1..Len(SearchOrders) : CandidateAt(i).some}

\* C20: the candidate _find_stable_state returns has the highest score of
\* the candidates that passed validation, and is the first in the order of
\* the preference list to have it; it returns one whenever that score is
\* above 0.3
C20_BestScoreEarliestWins ==
    (Searched /\ engine = "Quantum") =>
        (/\ stable = "stable" =>
               \E i \in Surviving :
                  /\ heap["stable"] = CandidateAt(i)
                  /\ \A j \in Surviving : ScoreAt(j) <= ScoreAt(i)
                  /\ \A j \in Surviving : j < i => ScoreAt(j) < ScoreAt(i)
         /\ (\E i \in Surviving : ScoreAt(i) > 3000) => stable = "stable")

\* two surviving candidates tie at the highest score and the earlier one is
\* returned
C20_Witness ==
    /\ Searched /\ engine = "Quantum" /\ stable = "stable"
    /\ \E i \in Surviving, j \in Surviving :
          /\ i < j
          /\ ScoreAt(i) = ScoreAt(j)
          /\ \A k \in Surviving : ScoreAt(k) <= ScoreAt(i)
          /\ heap["stable"] = CandidateAt(i)
          /\ CandidateAt(j) # CandidateAt(i)

\* C21: in couple_particles, success is true exactly when stable_state is
\* not None: the stability computed after the search is the best score the
\* search found for the returned candidate, so a returned candidate comes
\* with a stability above 0.3
C21_SuccessIffStableFound ==
    (pc = "done" /\ engine = "Quantum") =>
        (/\ result.success <=> result.stable_state = "stable"
         /\ result.stable_state = "stable" =>
               (/\ result.stability > 3000
                /\ \E i \in Surviving :
                      /\ heap["stable"] = CandidateAt(i)
                      /\ result.stability = ScoreAt(i)
                      /\ \A j \in Surviving : ScoreAt(j) <= result.stability))

\* a search over two surviving candidates of different scores whose winner
\* is returned with success
C21_Witness ==
    /\ pc = "done" /\ engine = "Quantum"
    /\ result.success /\ result.stable_state = "stable"
    /\ \E i \in Surviving, j \in Surviving :
          /\ ScoreAt(j) < ScoreAt(i)
          /\ result.stability = ScoreAt(i)

\* C22: with the default stability_threshold, for every force type and
\* every pair of inputs whose orders add to 4 or more, the search of
\* couple_particles returns a candidate and the call returns success with
\* a stability of at least 0.7
C22_OrderSumFourCouples ==
    (engine = "Quantum" /\ threshold = 80
       /\ Order(given[1]) + Order(given[2]) >= 4) =>
        (/\ Searched => stable = "stable"
         /\ pc = "done" =>
               (/\ result.success
                /\ result.stable_state = "stable"
                /\ result.stability >= 7000))

\* a pair without the Lo Shu square whose composite has no correlation with
\* the candidate (nan), coupled at the lowest stability the claim allows
C22_Witness ==
    /\ pc = "done" /\ engine = "Quantum" /\ threshold = 80
    /\ Order(given[1]) + Order(given[2]) >= 4
    /\ given[1] # LoShu /\ given[2] # LoShu
    /\ result.success /\ result.stable_state = "stable" /\ result.stability = 7000

=============================================================================
